---- MODULE Spec2Model ----
(***************************************************************************)
(* Model of src/build/neb.py: switch_indices, switch_all_indices and       *)
(* check_interpolation.                                                    *)
(*                                                                         *)
(* Atoms objects live in a heap (structs); an object is never modified     *)
(* after it is built, a call allocates a new one.  Positions are 0-based   *)
(* as in the source.  An atom is named by the position it has in the       *)
(* first structure, and a force entry by the atom it was computed for, so  *)
(* "forces[i] belongs to the atom at position i" is forces[i] = order[i].  *)
(* The force container is a sequence of per-atom entries whose item        *)
(* assignment stores values (the source treats it as a list: f = [],       *)
(* f == []).                                                               *)
(***************************************************************************)
EXTENDS Integers, Sequences, FiniteSets

\* structs, prov, model: the Atoms objects, the calculator (results, atoms)
\*   and the structure the caller currently holds; calls is the history of
\*   the switch_indices calls made (arguments, outcome, forces before/after).
\* pc .. nswaps: the loop of switch_all_indices; nswaps counts its calls of
\*   switch_indices.
\* ipc .. err: check_interpolation; traj is the Trajectory writer t,
\*   checked the history of bond-check results, err the error raised.
VARIABLES structs, prov, model, calls,
          pc, i, swapped, new_indices, nswaps,
          ipc, n_max, save, verbose, imagesLen, interpolated, traj,
          image, flag, checked, written, err

heapVars == <<structs, prov, model, calls>>
reindexVars == <<pc, i, swapped, new_indices, nswaps>>
interpVars == <<ipc, n_max, save, verbose, imagesLen, interpolated, traj,
                image, flag, checked, written, err>>
vars == <<heapVars, reindexVars, interpVars>>

\* ---------------------------------------------------------------- bounds
\* atoms of the structures that switch_indices is called on
MaxAtoms == 3
\* calls of switch_indices in a row
MaxCalls == 3
\* atoms of the structures that switch_all_indices is called on
MaxPermLen == 5
\* largest image count given to check_interpolation
MaxImages == 3

\* The calculator reference of an Atoms object without calculator (None).
NoCalc == 0
\* The one calculator object of the model.
Calc == 1

Energies == {-7, 4}

\* An index argument: an int, or a float (not an int, not usable as a
\* list index).
IntArg(k) == [isInt |-> TRUE, val |-> k]

FloatArg == [isInt |-> FALSE, val |-> 1]

\* isinstance(x, int)
isinstance_int(x) == x.isInt

Positions(n) == 0 .. (n - 1)

\* len(model)
NAtoms(S, m) == Cardinality(DOMAIN S[m].order)

\* ------------------------------------------------------- switch_indices
\* line 25: the check that raises ValueError
RaisesValueError(A, B) == (~ isinstance_int(A)) /\ isinstance_int(B)

\* line 30: t = [atom.index for atom in model]
IndexList(S, m) == [k \in DOMAIN S[m].order |-> k]

\* lines 34-40: f is the calculator's own forces object, or []
ForcesOf(S, P, m) == IF S[m].calc # NoCalc THEN P.results.forces ELSE << >>

\* lines 42, 46: x[A], x[B] = x[B], x[A]
SwapItemsMut(x, A, B) == [x EXCEPT ![A] = x[B]]

SwapItems(x, A, B) == [x EXCEPT ![A] = x[B], ![B] = x[A]]

\* lines 45-46: the force entries are exchanged in the calculator's object
SwappedForcesMut(f, A, B) == f

SwappedForces(f, A, B) == IF f # << >> THEN SwapItems(f, A, B) ELSE f

\* line 49: new_model = model[t]; the new object has no calculator yet
NewModel(S, m, t) == [order |-> [k \in DOMAIN t |-> S[m].order[t[k]]], calc |-> NoCalc]

\* line 52: new_model.set_calculator(prev_calc)
SetCalculatorMut(a, c) == a

SetCalculator(a, c) == [a EXCEPT !.calc = c]

\* line 55: prev_calc.atoms = new_model
SetAtomsMut(P, a) == P

SetAtoms(P, a) == [P EXCEPT !.atoms = a]

\* The whole call on heap S and calculator P: what it raises or returns and
\* the heap and calculator it leaves.
switch_indices(S, P, m, A, B) ==
    IF RaisesValueError(A, B)
    THEN [outcome |-> "ValueError", structs |-> S, prov |-> P, ret |-> 0]
    ELSE IF ~ (isinstance_int(A) /\ isinstance_int(B))
    THEN \* line 42: t[B] or t[A] with a float index
         [outcome |-> "TypeError", structs |-> S, prov |-> P, ret |-> 0]
    ELSE LET a == A.val
             b == B.val
             t == SwapItems(IndexList(S, m), a, b)
             f == SwappedForces(ForcesOf(S, P, m), a, b)
             new == Len(S) + 1
             hasCalc == S[m].calc # NoCalc
             P1 == IF hasCalc THEN [P EXCEPT !.results.forces = f] ELSE P
             bare == NewModel(S, m, t)
             new_model == IF hasCalc THEN SetCalculator(bare, S[m].calc) ELSE bare
             P2 == IF hasCalc THEN SetAtoms(P1, new) ELSE P1
         IN [outcome |-> "returned", structs |-> Append(S, new_model),
             prov |-> P2, ret |-> new]

\* One call of switch_indices on the current structure; the caller keeps
\* using the returned structure, or the old one when the call raised.
DoSwitch(A, B) ==
    LET r == switch_indices(structs, prov, model, A, B)
    IN /\ structs' = r.structs
       /\ prov' = r.prov
       /\ model' = IF r.outcome = "returned" THEN r.ret ELSE model
       /\ calls' = Append(calls, [model |-> model, A |-> A, B |-> B,
                                  outcome |-> r.outcome, ret |-> r.ret,
                                  before |-> prov.results.forces,
                                  after |-> r.prov.results.forces])

IndexArgs(n) == {IntArg(k) : k \in Positions(n)} \cup {FloatArg}

SwitchCall ==
    /\ Len(calls) < MaxCalls
    /\ \E A, B \in IndexArgs(NAtoms(structs, model)) : DoSwitch(A, B)
    /\ UNCHANGED <<reindexVars, interpVars>>

\* ------------------------------------------------------------------ Init
InitHeap(maxn) ==
    \E n \in 1 .. maxn, c \in {NoCalc, Calc}, e \in Energies :
       /\ structs = << [order |-> [k \in Positions(n) |-> k], calc |-> c] >>
       /\ prov = IF c = NoCalc
                 THEN [results |-> [forces |-> << >>, energy |-> e], atoms |-> 0]
                 ELSE [results |-> [forces |-> [k \in Positions(n) |-> k],
                                    energy |-> e], atoms |-> 1]
       /\ model = 1
       /\ calls = << >>

InitReindex ==
    /\ pc = "idle"
    /\ i = 0
    /\ swapped = << >>
    /\ new_indices = << >>
    /\ nswaps = 0

InitInterp ==
    /\ ipc = "idle"
    /\ n_max = IntArg(0)
    /\ save = FALSE
    /\ verbose = FALSE
    /\ imagesLen = 0
    /\ interpolated = FALSE
    /\ traj = "none"
    /\ image = 0
    /\ flag = FALSE
    /\ checked = << >>
    /\ written = 0
    /\ err = "none"

Init == InitHeap(MaxAtoms) /\ InitReindex /\ InitInterp

NextSwap == SwitchCall

Spec == Init /\ [][NextSwap]_vars

\* --------------------------------------------------- switch_all_indices
Bijections(n) ==
    {p \in [Positions(n) -> Positions(n)] : \A a, b \in Positions(n) : p[a] = p[b] => a = b}

\* line 87: i not in swapped
NotInSwappedMut(k, sw) == TRUE

NotInSwapped(k, sw) == \A j \in 1 .. Len(sw) : sw[j] # k

\* line 87: new_indices[i] is not i.  Both operands are small ints (below
\* 257), which CPython shares, so identity is equality of value.
IsNot(a, b) == a # b

\* lines 82-86: swapped = [] and the loop is entered
SwitchAllCall ==
    /\ pc = "idle"
    /\ \E p \in Bijections(NAtoms(structs, model)) : new_indices' = p
    /\ pc' = "loop"
    /\ i' = 0
    /\ swapped' = << >>
    /\ nswaps' = 0
    /\ UNCHANGED <<heapVars, interpVars>>

\* lines 86-89: one pass of the loop body
SwitchAllIter ==
    /\ pc = "loop"
    /\ i < Cardinality(DOMAIN new_indices)
    /\ IF IsNot(new_indices[i], i) /\ NotInSwapped(i, swapped)
       THEN /\ DoSwitch(IntArg(i), IntArg(new_indices[i]))
            /\ swapped' = Append(swapped, new_indices[i])
            /\ nswaps' = nswaps + 1
       ELSE UNCHANGED <<heapVars, swapped, nswaps>>
    /\ i' = i + 1
    /\ UNCHANGED <<pc, new_indices, interpVars>>

\* line 91: return model
SwitchAllReturn ==
    /\ pc = "loop"
    /\ i = Cardinality(DOMAIN new_indices)
    /\ pc' = "done"
    /\ UNCHANGED <<heapVars, i, swapped, new_indices, nswaps, interpVars>>

InitAll == InitHeap(MaxPermLen) /\ InitReindex /\ InitInterp

NextAll == SwitchAllCall \/ SwitchAllIter \/ SwitchAllReturn

SpecAll == InitAll /\ [][NextAll]_vars

\* --------------------------------------------------- check_interpolation
\* line 129: not isinstance(n_max, int)
RejectsNMaxMut(n) == FALSE

RejectsNMax(n) == ~ isinstance_int(n)

\* lines 134-136: [initial] + (n_max - 2 copies) + [final]
ImageCount(n) == 1 + (IF n > 2 THEN n - 2 ELSE 0) + 1

\* lines 152-153: if (not updated_flag): flag = updated_flag
UpdateFlagMut(old, updated_flag) == updated_flag

UpdateFlag(old, updated_flag) == IF ~ updated_flag THEN updated_flag ELSE old

NMaxArgs == {IntArg(k) : k \in 0 .. MaxImages} \cup {FloatArg}

\* lines 124-145: validation, the band, its interpolation, the writer
CheckInterpolationCall ==
    /\ ipc = "idle"
    /\ \E n \in NMaxArgs, s \in BOOLEAN, v \in BOOLEAN :
          /\ n_max' = n
          /\ save' = s
          /\ verbose' = v
          /\ IF RejectsNMax(n)
             THEN /\ ipc' = "raised"
                  /\ err' = "ValueError"
                  /\ UNCHANGED <<imagesLen, interpolated, traj, flag>>
             ELSE IF ~ isinstance_int(n)
             THEN \* line 135: n_max - 2 is no argument for range()
                  /\ ipc' = "raised"
                  /\ err' = "TypeError"
                  /\ imagesLen' = 1
                  /\ UNCHANGED <<interpolated, traj, flag>>
             ELSE /\ ipc' = "loop"
                  /\ imagesLen' = ImageCount(n.val)
                  /\ interpolated' = TRUE
                  /\ traj' = IF s THEN "open" ELSE "none"
                  /\ flag' = TRUE
                  /\ UNCHANGED err
    /\ UNCHANGED <<image, checked, written>>
    /\ UNCHANGED <<heapVars, reindexVars>>

\* lines 146-153: one image; the bond checker and the writer are external
\* and may raise
AssessImage ==
    /\ ipc = "loop"
    /\ image < n_max.val
    /\ \E r \in {"pass", "fail", "raise"}, w \in {"ok", "raise"} :
          IF r = "raise"
          THEN /\ ipc' = "raised"
               /\ err' = "CheckerError"
               /\ UNCHANGED <<checked, written, flag, image>>
          ELSE /\ checked' = Append(checked, [image |-> image, ok |-> (r = "pass")])
               /\ IF save /\ w = "raise"
                  THEN /\ ipc' = "raised"
                       /\ err' = "WriteError"
                       /\ UNCHANGED <<written, flag, image>>
                  ELSE /\ written' = IF save THEN written + 1 ELSE written
                       /\ flag' = UpdateFlag(flag, r = "pass")
                       /\ image' = image + 1
                       /\ UNCHANGED <<ipc, err>>
    /\ UNCHANGED <<n_max, save, verbose, imagesLen, interpolated, traj>>
    /\ UNCHANGED <<heapVars, reindexVars>>

\* lines 155-158: close the writer and return flag
CheckInterpolationReturn ==
    /\ ipc = "loop"
    /\ image = n_max.val
    /\ traj' = IF save THEN "closed" ELSE traj
    /\ ipc' = "done"
    /\ UNCHANGED <<n_max, save, verbose, imagesLen, interpolated, image, flag,
                   checked, written, err>>
    /\ UNCHANGED <<heapVars, reindexVars>>

InitCheck ==
    /\ InitHeap(1)
    /\ structs[1].calc = NoCalc
    /\ prov.results.energy = 4
    /\ InitReindex
    /\ InitInterp

NextCheck == CheckInterpolationCall \/ AssessImage \/ CheckInterpolationReturn

SpecCheck == InitCheck /\ [][NextCheck]_vars

\* ================================================================ claims
Last(q) == q[Len(q)]

\* A step that is a call of switch_indices which returned a structure.
ReturnedStep == Len(calls') = Len(calls) + 1 /\ Last(calls').outcome = "returned"

TwiceAt(k) ==
    /\ k + 1 <= Len(calls)
    /\ calls[k].outcome = "returned"
    /\ calls[k + 1].outcome = "returned"
    /\ calls[k + 1].model = calls[k].ret
    /\ calls[k + 1].A = calls[k].A
    /\ calls[k + 1].B = calls[k].B
    /\ calls[k].A # calls[k].B

C5_Validation ==
    \A k \in 1 .. Len(calls) :
       (~ calls[k].A.isInt \/ ~ calls[k].B.isInt) =>
          /\ calls[k].outcome = "ValueError"
          /\ calls[k].ret = 0
          /\ calls[k].after = calls[k].before

\* C9: the structure a call returns references the calculator of the
\* argument (none when the argument has none), the cached energy is kept,
\* and the calculator's atoms back-reference is the returned structure, a
\* new object.
C9_CarryOver ==
    [][ReturnedStep =>
          /\ structs'[model'].calc = structs[model].calc
          /\ prov'.results.energy = prov.results.energy
          /\ model' # model
          /\ structs[model].calc # NoCalc => prov'.atoms = model']_vars

C9_Witness ==
    /\ Len(calls) >= 1
    /\ Last(calls).outcome = "returned"
    /\ model = Last(calls).ret
    /\ structs[model].calc = Calc
    /\ structs[Last(calls).model].calc = Calc
    /\ prov.atoms = model
    /\ model # 1

\* C3 as stated: the structure switch_all_indices returns has, at every
\* position k, the atom that was at position new_indices[k].
C3_ExactPermutation ==
    pc = "done" =>
       \A k \in DOMAIN new_indices :
          structs[model].order[k] = structs[1].order[new_indices[k]]

IsInvolution(p) == \A k \in DOMAIN p : p[p[k]] = k

\* C10: for a permutation that is its own inverse, switch_all_indices calls
\* switch_indices once per 2-cycle and returns the structure that has, at
\* every position k, the atom that was at position new_indices[k].
C10_Involutions ==
    (pc = "done" /\ IsInvolution(new_indices)) =>
       /\ nswaps = Cardinality({k \in DOMAIN new_indices : new_indices[k] > k})
       /\ \A k \in DOMAIN new_indices :
             structs[model].order[k] = structs[1].order[new_indices[k]]

C10_Witness ==
    /\ pc = "done"
    /\ IsInvolution(new_indices)
    /\ nswaps = 2
    /\ \E k \in DOMAIN new_indices : new_indices[k] = k
    /\ structs[model].order = new_indices

\* C6 as stated: no call of check_interpolation ends, by return or by an
\* error, with the trajectory writer still open.
C6_WriterReleased == ipc \in {"done", "raised"} => traj # "open"

\* C7: with n_max >= 2, the images 0 .. n_max-1 are checked once each in
\* order, the running flag is the conjunction of the checks made so far (so
\* it is false from the first failing image on), and the returned flag is
\* true exactly when all n_max images passed.
C7_AggregateAnd ==
    (ipc \in {"loop", "done"} /\ n_max.val >= 2) =>
       /\ flag = (\A k \in 1 .. Len(checked) : checked[k].ok)
       /\ Len(checked) = image
       /\ \A k \in 1 .. Len(checked) : checked[k].image = k - 1
       /\ ipc = "done" => (Len(checked) = n_max.val /\ imagesLen = n_max.val)

C7_Witness ==
    /\ ipc = "done"
    /\ n_max.val = 3
    /\ checked[1].ok
    /\ ~ checked[2].ok
    /\ checked[3].ok
    /\ ~ flag

\* C8: a call with an n_max that is not an int ends in ValueError with no
\* image built, no interpolation run, no image checked and the trajectory
\* neither opened nor written.
C8_NMaxValidation ==
    (ipc # "idle" /\ ~ n_max.isInt) =>
       /\ ipc = "raised"
       /\ err = "ValueError"
       /\ imagesLen = 0
       /\ ~ interpolated
       /\ checked = << >>
       /\ traj = "none"
       /\ written = 0

C8_Witness ==
    /\ ipc = "raised"
    /\ ~ n_max.isInt
    /\ save
    /\ err = "ValueError"

====
